---- MODULE Spec2Model ----
(***************************************************************************)
(* Model of parley's TreeStyleBuilder (src/parley/src/resolve/tree.rs):    *)
(* a builder that flattens nested style scopes and pushed text into a text *)
(* and a list of styled byte ranges, with optional whitespace collapsing.  *)
(*                                                                         *)
(* A string is a sequence of characters; a character is a one-token string *)
(* ("NBSP" stands for U+00A0, "VT" for U+000B).  Lengths are UTF-8 byte    *)
(* lengths, as str::len gives them.  Option<usize> is <<>> (None) or <<n>> *)
(* (Some(n)); tree indices are 0-based as in the source.                   *)
(***************************************************************************)
EXTENDS Integers, Sequences, FiniteSets, TLC

\* ------------------------------------------------------------------ bounds
\* most characters a caller pushes between two begins
MaxText == 2
\* most nodes the tree holds
MaxNodes == 2
\* most characters of a chunk collapsed on its own
MaxChunk == 3

\* ------------------------------------------------------- characters, text
NBSP == "NBSP"
VT == "VT"

\* characters the unconstrained caller pushes
Alphabet == {" ", "x", NBSP}

\* char::is_ascii_whitespace: U+0020, U+0009, U+000A, U+000C, U+000D
is_ascii_whitespace(c) == c \in {" ", "\t", "\n", "\f", "\r"}

\* char::is_whitespace (Unicode White_Space), the predicate of str::trim_start
\* and str::trim_end
is_whitespace(c) == c \in {" ", "\t", "\n", "\f", "\r", VT, NBSP}

\* UTF-8 length of one character
len_utf8(c) == IF c = NBSP THEN 2 ELSE 1

\* str::len: byte length
RECURSIVE len(_)
len(str) == IF str = <<>> THEN 0 ELSE len_utf8(Head(str)) + len(Tail(str))

RECURSIVE trim_start(_)
trim_start(str) ==
    IF str # <<>> /\ is_whitespace(Head(str)) THEN trim_start(Tail(str)) ELSE str

RECURSIVE trim_end(_)
trim_end(str) ==
    IF str # <<>> /\ is_whitespace(str[Len(str)])
    THEN trim_end(SubSeq(str, 1, Len(str) - 1))
    ELSE str

\* the closure forgetting a whitespace character it has dropped: of a run it
\* drops every second character
RECURSIVE collapse_spaces_pairs(_, _)
collapse_spaces_pairs(str, last_char_whitespace) ==
    IF str = <<>> THEN <<>>
    ELSE LET c == Head(str)
             this_char_whitespace == is_ascii_whitespace(c)
         IN  IF this_char_whitespace
             THEN IF last_char_whitespace
                  THEN collapse_spaces_pairs(Tail(str), FALSE)
                  ELSE <<" ">> \o collapse_spaces_pairs(Tail(str), TRUE)
             ELSE <<c>> \o collapse_spaces_pairs(Tail(str), FALSE)

\* the filter_map closure of the Collapse branch, with its captured
\* last_char_whitespace
RECURSIVE collapse_spaces(_, _)
collapse_spaces(str, last_char_whitespace) ==
    IF str = <<>> THEN <<>>
    ELSE LET c == Head(str)
             this_char_whitespace == is_ascii_whitespace(c)
             rest == collapse_spaces(Tail(str), this_char_whitespace)
         IN  IF this_char_whitespace
             THEN IF last_char_whitespace THEN rest ELSE <<" ">> \o rest
             ELSE <<c>> \o rest

\* ------------------------------------------------------------------ styles
Fields == {"weight", "size"}
FieldValues == {1, 2}
\* ResolvedStyle: a value with two fields
Styles == [Fields -> FieldValues]
\* ResolvedProperty: one field override
Properties == [field : Fields, value : FieldValues]

S0 == [f \in Fields |-> 1]
S1 == [f \in Fields |-> 2]
D == [field |-> "weight", value |-> 2]

\* ResolvedStyle::apply: merge one property into the style
apply(style, prop) == [style EXCEPT ![prop.field] = prop.value]

\* ------------------------------------------------------------------- tree
None == <<>>
Some(n) == <<n>>

\* StyleTreeNode::span
span(parent, style) == [parent |-> parent, data |-> [kind |-> "Span", style |-> style]]

\* usize::MAX, the cursor of a builder that never began (only ever an
\* out-of-range index)
UsizeMax == 2147483647

\* Default::default()
Default ==
    [tree |-> <<>>,
     flatted_styles |-> <<>>,
     white_space_collapse |-> "Preserve",
     text |-> <<>>,
     uncomitted_text |-> <<>>,
     current_span |-> UsizeMax,
     is_span_first |-> FALSE,
     panicked |-> FALSE]

\* self.tree[i] is in bounds
InBounds(s, i) == i >= 0 /\ i < Len(s.tree)

\* self.tree[i]
Node(s, i) == s.tree[i + 1]

\* a panic unwinds out of the operation: the fields keep what was written
Panic(s) == [s EXCEPT !.panicked = TRUE]

\* current_style succeeds: index in bounds and as_span() is Some
CurrentStyleOk(s) ==
    InBounds(s, s.current_span) /\ Node(s, s.current_span).data.kind = "Span"

current_style(s) == Node(s, s.current_span).data.style

\* span_text that never trims the end
span_text_no_trim_end(s, is_span_last) ==
    IF s.white_space_collapse = "Preserve"
    THEN s.uncomitted_text
    ELSE LET t1 == IF s.is_span_first THEN trim_start(s.uncomitted_text)
                   ELSE s.uncomitted_text
         IN  collapse_spaces(t1, FALSE)

\* the chunk push_uncomitted_text computes (span_text)
span_text(s, is_span_last) ==
    IF s.white_space_collapse = "Preserve"
    THEN s.uncomitted_text
    ELSE LET t1 == IF s.is_span_first THEN trim_start(s.uncomitted_text)
                   ELSE s.uncomitted_text
             t2 == IF is_span_last THEN trim_end(t1) ELSE t1
         IN  collapse_spaces(t2, FALSE)

\* push_uncomitted_text without the return on an empty chunk
push_uncomitted_text_no_return(s, is_span_last) ==
    LET st == span_text(s, is_span_last) IN
    IF ~CurrentStyleOk(s) THEN Panic(s)
    ELSE [s EXCEPT
            !.flatted_styles =
                Append(@, [style |-> current_style(s),
                           range |-> [start |-> len(s.text),
                                      end |-> len(s.text) + len(st)]]),
            !.text = @ \o st,
            !.uncomitted_text = <<>>,
            !.is_span_first = FALSE]

\* push_uncomitted_text whose range starts at 0 instead of at text.len()
push_uncomitted_text_from_zero(s, is_span_last) ==
    LET st == span_text(s, is_span_last) IN
    IF len(st) = 0 THEN [s EXCEPT !.is_span_first = FALSE]
    ELSE IF ~CurrentStyleOk(s) THEN Panic(s)
    ELSE [s EXCEPT
            !.flatted_styles =
                Append(@, [style |-> current_style(s),
                           range |-> [start |-> 0, end |-> len(st)]]),
            !.text = @ \o st,
            !.uncomitted_text = <<>>,
            !.is_span_first = FALSE]

push_uncomitted_text(s, is_span_last) ==
    LET st == span_text(s, is_span_last) IN
    IF len(st) = 0 THEN [s EXCEPT !.is_span_first = FALSE]
    ELSE IF ~CurrentStyleOk(s) THEN Panic(s)
    ELSE [s EXCEPT
            !.flatted_styles =
                Append(@, [style |-> current_style(s),
                           range |-> [start |-> len(s.text),
                                      end |-> len(s.text) + len(st)]]),
            !.text = @ \o st,
            !.uncomitted_text = <<>>,
            !.is_span_first = FALSE]

\* begin that leaves the pending text of the pass before
begin_keeps_pending(s, root_style) ==
    [s EXCEPT
        !.tree = <<span(None, root_style)>>,
        !.flatted_styles = <<>>,
        !.white_space_collapse = "Preserve",
        !.text = <<>>,
        !.current_span = 0,
        !.is_span_first = TRUE]

\* begin that pushes the root onto the tree of the pass before
begin_appends_root(s, root_style) ==
    [s EXCEPT
        !.tree = @ \o <<span(None, root_style)>>,
        !.flatted_styles = <<>>,
        !.white_space_collapse = "Preserve",
        !.text = <<>>,
        !.uncomitted_text = <<>>,
        !.current_span = 0,
        !.is_span_first = TRUE]

begin(s, root_style) ==
    [s EXCEPT
        !.tree = <<span(None, root_style)>>,
        !.flatted_styles = <<>>,
        !.white_space_collapse = "Preserve",
        !.text = <<>>,
        !.uncomitted_text = <<>>,
        !.current_span = 0,
        !.is_span_first = TRUE]

\* set_white_space_mode that first flushes the pending text under the old mode
set_white_space_mode_flushing(s, white_space_collapse) ==
    [push_uncomitted_text(s, FALSE) EXCEPT
        !.white_space_collapse = white_space_collapse]

set_white_space_mode(s, white_space_collapse) ==
    [s EXCEPT !.white_space_collapse = white_space_collapse]

\* current_text_len that counts the pending text too
current_text_len_with_pending(s) == len(s.text) + len(s.uncomitted_text)

current_text_len(s) == len(s.text)

\* push_style_span that flushes after it has moved the cursor
push_style_span_late_flush(s, style) ==
    IF s.panicked THEN s
    ELSE LET m == [s EXCEPT
                     !.tree = Append(@, span(Some(s.current_span), style)),
                     !.current_span = Len(s.tree)]
             f == push_uncomitted_text(m, FALSE)
         IN  IF f.panicked THEN f ELSE [f EXCEPT !.is_span_first = TRUE]

push_style_span(s, style) ==
    LET f == push_uncomitted_text(s, FALSE) IN
    IF f.panicked THEN f
    ELSE [f EXCEPT
            !.tree = Append(@, span(Some(f.current_span), style)),
            !.current_span = Len(f.tree),
            !.is_span_first = TRUE]

\* the for loop taking the properties last to first
RECURSIVE apply_all_reversed(_, _)
apply_all_reversed(style, properties) ==
    IF properties = <<>> THEN style
    ELSE apply(apply_all_reversed(style, Tail(properties)), Head(properties))

\* the for loop over the properties
RECURSIVE apply_all(_, _)
apply_all(style, properties) ==
    IF properties = <<>> THEN style
    ELSE apply_all(apply(style, Head(properties)), Tail(properties))

push_style_modification_span(s, properties) ==
    IF ~CurrentStyleOk(s) THEN Panic(s)
    ELSE LET new_style == apply_all(current_style(s), properties)
             f == push_uncomitted_text(s, FALSE)
         IN  IF f.panicked THEN f
             ELSE [f EXCEPT
                     !.tree = Append(@, span(Some(f.current_span), new_style)),
                     !.current_span = Len(f.tree)]

\* pop_style_span with the cursor clamped at the root instead of expect
pop_style_span_clamped(s) ==
    LET f == push_uncomitted_text(s, TRUE) IN
    IF f.panicked THEN f
    ELSE IF ~InBounds(f, f.current_span) THEN Panic(f)
    ELSE IF Node(f, f.current_span).parent = None THEN f
    ELSE [f EXCEPT !.current_span = Node(f, f.current_span).parent[1]]

\* pop_style_span that returns to the root scope
pop_style_span_to_root(s) ==
    LET flushed == push_uncomitted_text(s, TRUE)
    IN  IF flushed.panicked \/ ~InBounds(flushed, flushed.current_span)
           \/ Node(flushed, flushed.current_span).parent = None
        THEN Panic(flushed)
        ELSE [flushed EXCEPT !.current_span = 0]

pop_style_span(s) ==
    LET f == push_uncomitted_text(s, TRUE) IN
    IF f.panicked THEN f
    ELSE IF ~InBounds(f, f.current_span) THEN Panic(f)
    ELSE IF Node(f, f.current_span).parent = None THEN Panic(f)
    ELSE [f EXCEPT !.current_span = Node(f, f.current_span).parent[1]]

\* push_text that flushes what it has appended
push_text_flushing(s, text) ==
    IF len(text) > 0
    THEN push_uncomitted_text([s EXCEPT !.uncomitted_text = @ \o text], FALSE)
    ELSE s

\* push_text that replaces the pending text instead of appending to it
push_text_replacing(s, text) ==
    IF len(text) > 0 THEN [s EXCEPT !.uncomitted_text = text] ELSE s

push_text(s, text) ==
    IF len(text) > 0 THEN [s EXCEPT !.uncomitted_text = @ \o text] ELSE s

\* the while-let loop of finish
RECURSIVE pop_to_root(_)
pop_to_root(s) ==
    IF s.panicked THEN s
    ELSE IF ~InBounds(s, s.current_span) THEN Panic(s)
    ELSE IF Node(s, s.current_span).parent # None THEN pop_to_root(pop_style_span(s))
    ELSE s

\* finish up to, not including, mem::take
finish_flushed(s) ==
    LET p == pop_to_root(s) IN
    IF p.panicked THEN p ELSE push_uncomitted_text(p, TRUE)

\* the builder after finish
finish(s) ==
    LET f == finish_flushed(s) IN
    IF f.panicked THEN f ELSE [f EXCEPT !.text = <<>>]

\* finish without styles.clear()
finish_styles_extend(s, styles) ==
    LET f == finish_flushed(s) IN
    IF f.panicked THEN styles ELSE styles \o f.flatted_styles

\* the caller's collection after finish(styles)
finish_styles(s, styles) ==
    LET f == finish_flushed(s) IN
    IF f.panicked THEN styles ELSE f.flatted_styles

\* the String finish returns
finish_text(s) == finish_flushed(s).text

\* ------------------------------------------------------------ the callers
\* A caller is either unconstrained ("free": any operation, small inputs) or
\* runs one of the scenarios of spec.md section 8, one operation per step.
Op(name, arg) == [op |-> name, arg |-> arg]

ScenarioA ==
    << Op("begin", S0),
       Op("push_text", <<"H", "e", "l", "l", "o", " ">>),
       Op("push_style_span", S1),
       Op("push_text", <<"w", "o", "r", "l", "d">>),
       Op("pop_style_span", <<>>),
       Op("push_text", <<"!">>),
       Op("finish", <<>>) >>

HiThere == <<" ", " ", " ", "H", "i", " ", " ", " ", "t", "h", "e", "r", "e", " ", " ">>

\* Scenario B in the order spec.md gives
ScenarioB ==
    << Op("set_white_space_mode", "Collapse"),
       Op("begin", S0),
       Op("push_text", HiThere),
       Op("finish", <<>>) >>

\* Scenario B with the mode set after begin
ScenarioBAfter ==
    << Op("begin", S0),
       Op("set_white_space_mode", "Collapse"),
       Op("push_text", HiThere),
       Op("finish", <<>>) >>

ScenarioC ==
    << Op("begin", S0),
       Op("push_style_span", S1),
       Op("pop_style_span", <<>>),
       Op("finish", <<>>) >>

ScenarioD ==
    << Op("begin", S0),
       Op("set_white_space_mode", "Collapse"),
       Op("push_style_modification_span", <<D>>),
       Op("push_text", <<" ", " ", "x">>),
       Op("finish", <<>>) >>

\* the mode changed twice while text is pending
ScenarioE ==
    << Op("begin", S0),
       Op("push_text", <<" ", " ", "a", " ", " ", "b", " ", " ">>),
       Op("set_white_space_mode", "Collapse"),
       Op("push_style_span", S1),
       Op("push_text", <<" ", "c", " ">>),
       Op("set_white_space_mode", "Preserve"),
       Op("pop_style_span", <<>>),
       Op("finish", <<>>) >>

\* a scope inside a scope, with text before, between and after
ScenarioF ==
    << Op("begin", S0),
       Op("push_text", <<"a">>),
       Op("push_style_span", S1),
       Op("push_text", <<"b">>),
       Op("push_style_modification_span", <<[field |-> "size", value |-> 1]>>),
       Op("push_text", <<"c">>),
       Op("pop_style_span", <<>>),
       Op("push_text", <<"d">>),
       Op("pop_style_span", <<>>),
       Op("push_text", <<"e">>),
       Op("finish", <<>>) >>

\* collapsed text around a scope without text
ScenarioG ==
    << Op("begin", S0),
       Op("set_white_space_mode", "Collapse"),
       Op("push_text", <<"a", " ">>),
       Op("push_style_span", S1),
       Op("pop_style_span", <<>>),
       Op("push_text", <<" ", "b">>),
       Op("finish", <<>>) >>

\* two words in Collapse mode, the second one in a scope of its own
ScenarioH ==
    << Op("begin", S0),
       Op("set_white_space_mode", "Collapse"),
       Op("push_text", <<"a">>),
       Op("push_style_span", S1),
       Op("push_text", <<" ", "b">>),
       Op("finish", <<>>) >>

ScriptNames == {"A", "B", "BAfter", "C", "D", "E", "F", "G", "H"}

Scenario(name) ==
    CASE name = "A" -> ScenarioA
      [] name = "B" -> ScenarioB
      [] name = "BAfter" -> ScenarioBAfter
      [] name = "C" -> ScenarioC
      [] name = "D" -> ScenarioD
      [] name = "E" -> ScenarioE
      [] name = "F" -> ScenarioF
      [] name = "G" -> ScenarioG
      [] name = "H" -> ScenarioH

\* inputs of the unconstrained caller
FreeTexts == {<<>>} \cup {<<c>> : c \in Alphabet}
FreeSpanStyles == {S0, S1}
FreeRootStyles == {S0}
FreeProperties == {<<>>} \cup {<<p>> : p \in Properties}
                    \cup {<<p, q>> : p \in Properties, q \in Properties}
Modes == {"Preserve", "Collapse"}

\* what the collection a caller hands to finish may hold
Stale == <<[style |-> S1, range |-> [start |-> 0, end |-> 9]]>>
PreviousContents == {<<>>, Stale}

VARIABLES
    builder,        \* the TreeStyleBuilder
    styles,         \* the caller's Vec<RangedStyle> after finish(styles)
    ret,            \* the String finish returned
    fresh,          \* a second builder, constructed anew at every begin
    fresh_styles,   \* the collection after fresh.finish
    fresh_ret,      \* the String fresh.finish returned
    phase,          \* "new", "building" (begin called), "finished" (finish
                    \* called), "drained" (finish called again)
    pushed,         \* the arguments of push_text since begin, concatenated
    pushed_style,   \* per byte of pushed: the current scope's style at the call
    preserve_only,  \* the mode was Preserve all the time since begin
    collapse_only,  \* the mode was set to Collapse right after begin and
                    \* not changed since
    chunk,          \* a chunk and the results of collapsing it repeatedly
    open_at_finish, \* scopes that were open when finish was called
    script,         \* the caller
    pc              \* operations a scenario's caller has performed

vars == <<builder, styles, ret, fresh, fresh_styles, fresh_ret, phase, pushed,
          pushed_style, preserve_only, collapse_only, chunk, open_at_finish,
          script, pc>>

\* a chunk of pending text with the two flags of its flush, and the results
\* of collapsing it once, twice, ...
Chunk(text, is_span_first, is_span_last) ==
    [text |-> text, is_span_first |-> is_span_first,
     is_span_last |-> is_span_last, results |-> <<>>]

NoChunk == Chunk(<<>>, FALSE, FALSE)

\* the caller's side of a builder just handed over
NewCaller ==
    /\ styles = <<>>
    /\ ret = <<>>
    /\ fresh = Default
    /\ fresh_styles = <<>>
    /\ fresh_ret = <<>>
    /\ phase = "new"
    /\ pushed = <<>>
    /\ pushed_style = <<>>
    /\ preserve_only = TRUE
    /\ collapse_only = FALSE
    /\ chunk = NoChunk
    /\ open_at_finish = 0
    /\ script \in {"free"} \cup ScriptNames
    /\ pc = 0

Init ==
    /\ builder = Default
    /\ NewCaller

\* the arguments the caller may pass to operation name now
Args(name, free) ==
    IF script = "free" THEN free
    ELSE IF pc < Len(Scenario(script)) /\ Scenario(script)[pc + 1].op = name
         THEN {Scenario(script)[pc + 1].arg}
         ELSE {}

\* The caller's protocol (spec.md section 2: begin, then pushes and pops, then
\* finish): before its first begin it calls only the operations that do not
\* index the tree, and after finish it calls begin or finish.  A builder that
\* panicked is not used again.
Called(name) ==
    /\ ~builder.panicked
    /\ phase = "new" => name \in {"begin", "set_white_space_mode", "push_text"}
    /\ phase \in {"finished", "drained"} => name \in {"begin", "finish"}
    /\ pc' = pc + (IF script = "free" THEN 0 ELSE 1)
    /\ UNCHANGED <<script, chunk>>

RECURSIVE PerByte(_, _)
PerByte(str, style) ==
    IF str = <<>> THEN <<>>
    ELSE [i \in 1..len_utf8(Head(str)) |-> style] \o PerByte(Tail(str), style)

\* number of ancestors of node i
RECURSIVE Depth(_, _)
Depth(s, i) ==
    IF ~InBounds(s, i) \/ Node(s, i).parent = None THEN 0
    ELSE 1 + Depth(s, Node(s, i).parent[1])

\* begin was the last call that changed the builder or pushed text
JustBegun ==
    /\ phase = "building"
    /\ pushed = <<>>
    /\ Len(builder.tree) = 1
    /\ builder.current_span = 0
    /\ builder.flatted_styles = <<>>
    /\ builder.uncomitted_text = <<>>
    /\ builder.white_space_collapse = "Preserve"
    /\ builder.is_span_first

\* begin(root_style); the results of an earlier pass are the caller's
Begin(root_style) ==
    /\ Called("begin")
    /\ builder' = begin(builder, root_style)
    /\ fresh' = begin(Default, root_style)
    /\ phase' = "building"
    /\ pushed' = <<>>
    /\ pushed_style' = <<>>
    /\ preserve_only' = TRUE
    /\ collapse_only' = FALSE
    /\ open_at_finish' = 0
    /\ styles' = <<>>
    /\ ret' = <<>>
    /\ fresh_styles' = <<>>
    /\ fresh_ret' = <<>>

SetWhiteSpaceMode(mode) ==
    /\ Called("set_white_space_mode")
    /\ builder' = set_white_space_mode(builder, mode)
    /\ fresh' = set_white_space_mode(fresh, mode)
    /\ preserve_only' = (preserve_only /\ mode = "Preserve")
    /\ collapse_only' = (mode = "Collapse" /\ (collapse_only \/ JustBegun))
    /\ UNCHANGED <<styles, ret, fresh_styles, fresh_ret, phase, pushed,
                   pushed_style, open_at_finish>>

PushText(text) ==
    /\ Called("push_text")
    /\ UNCHANGED collapse_only
    /\ builder' = push_text(builder, text)
    /\ fresh' = push_text(fresh, text)
    /\ pushed' = pushed \o text
    /\ pushed_style' =
          IF CurrentStyleOk(builder)
          THEN pushed_style \o PerByte(text, current_style(builder))
          ELSE pushed_style
    /\ UNCHANGED <<styles, ret, fresh_styles, fresh_ret, phase, preserve_only,
                   open_at_finish>>

PushStyleSpan(style) ==
    /\ Called("push_style_span")
    /\ UNCHANGED collapse_only
    /\ builder' = push_style_span(builder, style)
    /\ fresh' = push_style_span(fresh, style)
    /\ UNCHANGED <<styles, ret, fresh_styles, fresh_ret, phase, pushed,
                   pushed_style, preserve_only, open_at_finish>>

PushStyleModificationSpan(properties) ==
    /\ Called("push_style_modification_span")
    /\ UNCHANGED collapse_only
    /\ builder' = push_style_modification_span(builder, properties)
    /\ fresh' = push_style_modification_span(fresh, properties)
    /\ UNCHANGED <<styles, ret, fresh_styles, fresh_ret, phase, pushed,
                   pushed_style, preserve_only, open_at_finish>>

PopStyleSpan ==
    /\ Called("pop_style_span")
    /\ UNCHANGED collapse_only
    /\ builder' = pop_style_span(builder)
    /\ fresh' = pop_style_span(fresh)
    /\ UNCHANGED <<styles, ret, fresh_styles, fresh_ret, phase, pushed,
                   pushed_style, preserve_only, open_at_finish>>

\* finish(styles), styles holding previous
Finish(previous) ==
    /\ Called("finish")
    /\ UNCHANGED collapse_only
    /\ builder' = finish(builder)
    /\ styles' = finish_styles(builder, previous)
    /\ ret' = IF builder'.panicked THEN ret ELSE finish_text(builder)
    /\ fresh' = finish(fresh)
    /\ fresh_styles' = finish_styles(fresh, previous)
    /\ fresh_ret' = IF fresh'.panicked THEN fresh_ret ELSE finish_text(fresh)
    /\ phase' = IF builder'.panicked THEN phase
                ELSE IF phase = "building" THEN "finished" ELSE "drained"
    /\ open_at_finish' = Depth(builder, builder.current_span)
    /\ UNCHANGED <<pushed, pushed_style, preserve_only>>

Next ==
    \/ \E root_style \in Args("begin", FreeRootStyles) : Begin(root_style)
    \/ \E mode \in Args("set_white_space_mode", Modes) : SetWhiteSpaceMode(mode)
    \/ \E text \in Args("push_text",
                        {t \in FreeTexts : Len(pushed) + Len(t) <= MaxText}) :
          PushText(text)
    \/ \E style \in Args("push_style_span",
                         IF Len(builder.tree) < MaxNodes THEN FreeSpanStyles ELSE {}) :
          PushStyleSpan(style)
    \/ \E properties \in Args("push_style_modification_span",
                              IF Len(builder.tree) < MaxNodes THEN FreeProperties
                              ELSE {}) :
          PushStyleModificationSpan(properties)
    \/ \E none \in Args("pop_style_span", {<<>>}) : PopStyleSpan
    \/ \E previous \in IF Args("finish", {<<>>}) = {} THEN {} ELSE PreviousContents :
          Finish(previous)

Spec == Init /\ [][Next]_vars

\* A builder that ran an earlier pass: left midway with a scope open, text
\* pending, text committed and the mode Collapse, or finished.
Abandoned ==
    push_text(
        push_style_span(
            set_white_space_mode(push_text(begin(Default, S1), <<"x">>), "Collapse"),
            S1),
        <<" ", "x">>)

UsedBuilders == {Abandoned, finish(Abandoned)}

InitReuse ==
    /\ builder \in UsedBuilders
    /\ NewCaller

\* the caller is handed a builder that was used before
SpecReuse == InitReuse /\ [][Next]_vars

\* --------------------------------------------- the Collapse transform alone
\* characters of the chunks: ASCII whitespace, a letter, and the two
\* whitespace characters that are not ASCII whitespace for the closure
ChunkAlphabet == {" ", "\t", "x", NBSP, VT}

Chunks == UNION {[1..n -> ChunkAlphabet] : n \in 0..MaxChunk}

\* the Collapse branch of push_uncomitted_text applied to text
collapse_transform(text, is_span_first, is_span_last) ==
    span_text([Default EXCEPT !.white_space_collapse = "Collapse",
                              !.uncomitted_text = text,
                              !.is_span_first = is_span_first],
              is_span_last)

InitCollapse ==
    /\ builder = Default
    /\ NewCaller
    /\ script = "free"

\* pick a chunk and the flags of its flush
PickChunk ==
    /\ chunk = NoChunk
    /\ \E text \in Chunks, is_span_first \in BOOLEAN, is_span_last \in BOOLEAN :
          chunk' = Chunk(text, is_span_first, is_span_last)
    /\ UNCHANGED <<builder, styles, ret, fresh, fresh_styles, fresh_ret, phase,
                   pushed, pushed_style, preserve_only, collapse_only,
                   open_at_finish, script, pc>>

\* collapse the chunk, or the result of the last collapse, with the same flags
CollapseChunk ==
    /\ chunk # NoChunk
    /\ Len(chunk.results) < 2
    /\ chunk' =
          [chunk EXCEPT !.results =
              Append(@, collapse_transform(
                            IF @ = <<>> THEN chunk.text ELSE @[Len(@)],
                            chunk.is_span_first, chunk.is_span_last))]
    /\ UNCHANGED <<builder, styles, ret, fresh, fresh_styles, fresh_ret, phase,
                   pushed, pushed_style, preserve_only, collapse_only,
                   open_at_finish, script, pc>>

NextCollapse == PickChunk \/ CollapseChunk

SpecCollapse == InitCollapse /\ [][NextCollapse]_vars

\* ================================================================== claims
HelloWorld == <<"H", "e", "l", "l", "o", " ", "w", "o", "r", "l", "d", "!">>
HiThereCollapsed == <<"H", "i", " ", "t", "h", "e", "r", "e">>

Ranged(style, start, end) == [style |-> style, range |-> [start |-> start, end |-> end]]

\* rs is sorted by start, pairwise non-overlapping and contiguous, starts at 0
\* and ends at n
Tiling(rs, n) ==
    /\ rs = <<>> => n = 0
    /\ rs # <<>> => rs[1].range.start = 0 /\ rs[Len(rs)].range.end = n
    /\ \A i \in 1..Len(rs) :
          \A j \in 1..Len(rs) :
              i < j => /\ rs[i].range.start < rs[j].range.start
                       /\ rs[i].range.end <= rs[j].range.start
    /\ \A i \in 1..(Len(rs) - 1) : rs[i].range.end = rs[i + 1].range.start

\* C1 (coverage): in every state between begin and finish the emitted ranges
\* tile [0, current_text_len()): increasing starts, no overlap, no gap, first
\* start 0, last end the text length; after finish the ranges written to the
\* caller's collection tile [0, len(returned text)) in the same way.
C1_Coverage ==
    /\ phase = "building" =>
          Tiling(builder.flatted_styles, current_text_len(builder))
    /\ phase = "finished" => Tiling(styles, len(ret))

\* a finished build of three ranges, one of them holding a two-byte character
C1_Witness ==
    /\ phase = "finished"
    /\ script = "free"
    /\ Len(styles) >= 2
    /\ len(ret) > Len(ret)
    /\ styles[1].style # styles[2].style

\* C2 (Preserve-mode identity): when the mode stayed Preserve from begin to
\* finish, the text finish returns is the concatenation, in call order, of the
\* arguments of push_text, whatever scopes were pushed and popped in between.
C2_PreserveIdentity ==
    (phase = "finished" /\ preserve_only) => ret = pushed

\* a Preserve build whose text was pushed in two scopes
C2_Witness ==
    /\ phase = "finished"
    /\ preserve_only
    /\ script = "free"
    /\ Len(pushed) = MaxText
    /\ Len(builder.tree) >= 2
    /\ Len(styles) >= 2

\* the emitted range that holds byte offset b (0-based)
RangesAt(rs, b) == {i \in 1..Len(rs) : rs[i].range.start <= b /\ b < rs[i].range.end}

\* C3 (style attribution in Preserve mode): every byte of the returned text
\* lies in an emitted range whose style is the style of the scope that was
\* current when the push_text call delivering the byte was made; Scenario A
\* returns "Hello world!" with ranges [0,6)->S0, [6,11)->S1, [11,12)->S0.
C3_StyleAttribution ==
    /\ (phase = "finished" /\ preserve_only) =>
          /\ Len(pushed_style) = len(ret)
          /\ \A b \in 0..(len(ret) - 1) :
                /\ RangesAt(styles, b) # {}
                /\ \A i \in RangesAt(styles, b) : styles[i].style = pushed_style[b + 1]
    /\ (script = "A" /\ pc = Len(ScenarioA)) =>
          /\ ret = HelloWorld
          /\ styles = <<Ranged(S0, 0, 6), Ranged(S1, 6, 11), Ranged(S0, 11, 12)>>

\* Scenario A has run to its end
C3_Witness ==
    /\ script = "A"
    /\ pc = Len(ScenarioA)
    /\ phase = "finished"
    /\ Len(styles) = 3
    /\ pushed_style[12] = S0
    /\ pushed_style[7] = S1

\* the current scope is the root
AtRoot(s) == InBounds(s, s.current_span) /\ Node(s, s.current_span).parent = None

\* C4 (root protection): a pop_style_span called while the current scope is the
\* root panics; it never returns normally.
C4_RootProtection ==
    [][(PopStyleSpan /\ AtRoot(builder)) => builder'.panicked]_vars

\* a pop at the root has panicked
C4_Witness ==
    /\ builder.panicked
    /\ phase = "building"
    /\ AtRoot(builder)

\* the positions of the properties that set field f
Touching(properties, f) == {i \in 1..Len(properties) : properties[i].field = f}

Last(S) == CHOOSE m \in S : \A x \in S : x <= m

\* style with, per field, the value of the last property that sets the field
Overridden(style, properties) ==
    [f \in Fields |->
        IF Touching(properties, f) = {} THEN style[f]
        ELSE properties[Last(Touching(properties, f))].value]

C6_ScenarioB_Original ==
    (script = "B" /\ pc = Len(ScenarioB)) =>
        /\ ret = HiThereCollapsed
        /\ styles = <<Ranged(S0, 0, 8)>>

\* C6 (amended): begin resets the mode to Preserve, so Scenario B in the stated
\* order returns the text unchanged with the one range [0,15) of style S0; with
\* set_white_space_mode(Collapse) called after begin(S0) it returns "Hi there"
\* and the one range [0,8) of style S0.
C6_ScenarioB_Amended ==
    /\ (script = "BAfter" /\ pc = Len(ScenarioBAfter)) =>
          /\ ret = HiThereCollapsed
          /\ styles = <<Ranged(S0, 0, 8)>>
    /\ (script = "B" /\ pc = Len(ScenarioB)) =>
          /\ ret = HiThere
          /\ styles = <<Ranged(S0, 0, 15)>>

\* Scenario B with the mode set after begin has run to its end
C6_Witness ==
    /\ script = "BAfter"
    /\ pc = Len(ScenarioBAfter)
    /\ phase = "finished"
    /\ builder.white_space_collapse = "Collapse"
    /\ pushed = HiThere

\* C7 (Scenario D): in Collapse mode begin(S0);
\* push_style_modification_span([D]); push_text("  x"); finish() returns "x".
C7_ScenarioD ==
    (script = "D" /\ pc = Len(ScenarioD)) => ret = <<"x">>

AllWhitespace(str) == \A i \in 1..Len(str) : is_whitespace(str[i])

\* the flush of s has nothing to emit: nothing is pending, or the mode is
\* Collapse and the pending text is whitespace that the trim removes
EmptyChunk(s, is_span_last) ==
    \/ s.uncomitted_text = <<>>
    \/ /\ s.white_space_collapse = "Collapse"
       /\ s.is_span_first \/ is_span_last
       /\ AllWhitespace(s.uncomitted_text)

NoRangeEmitted ==
    /\ builder'.flatted_styles = builder.flatted_styles
    /\ builder'.text = builder.text

NonEmptyRanges(rs) == \A i \in 1..Len(rs) : rs[i].range.start < rs[i].range.end

\* C8 (no empty ranges): every emitted range has start < end; a flush whose
\* chunk is empty emits no range and appends nothing to the text; Scenario C
\* returns "" and no range.
C8_NoEmptyRanges ==
    /\ [](NonEmptyRanges(builder.flatted_styles) /\ NonEmptyRanges(styles))
    /\ [][(/\ EmptyChunk(builder, FALSE)
           /\ Len(builder'.tree) = Len(builder.tree) + 1
           /\ \/ \E style \in Styles : PushStyleSpan(style)
              \/ \E properties \in FreeProperties :
                    PushStyleModificationSpan(properties)) => NoRangeEmitted]_vars
    /\ [][(EmptyChunk(builder, TRUE) /\ PopStyleSpan) => NoRangeEmitted]_vars
    /\ [][\A previous \in PreviousContents :
            (/\ EmptyChunk(builder, TRUE)
             /\ AtRoot(builder)
             /\ phase' # "building"
             /\ Finish(previous)) =>
                (styles' = builder.flatted_styles /\ ret' = builder.text)]_vars
    /\ []((script = "C" /\ pc = Len(ScenarioC)) =>
             (phase = "finished" /\ ret = <<>> /\ styles = <<>>))

\* a Collapse build whose pushed text was all trimmed away, in two scopes
C8_Witness ==
    /\ phase = "finished"
    /\ script = "free"
    /\ Len(pushed) = MaxText
    /\ Len(builder.tree) >= 2
    /\ open_at_finish = 0
    /\ ret = <<>>
    /\ styles = <<>>

IsPrefix(a, b) == Len(a) <= Len(b) /\ SubSeq(b, 1, Len(a)) = a

Begun(root_style) ==
    [tree |-> <<[parent |-> None, data |-> [kind |-> "Span", style |-> root_style]]>>,
     flatted_styles |-> <<>>,
     white_space_collapse |-> "Preserve",
     text |-> <<>>,
     uncomitted_text |-> <<>>,
     current_span |-> 0,
     is_span_first |-> TRUE,
     panicked |-> FALSE]

\* C10 (begin resets everything): a builder that ran other passes before
\* (finished, or abandoned with a scope open, text pending and the mode
\* Collapse) and a newly constructed builder, given the same begin and the
\* same operations after it, are in the same state after every operation and
\* produce the same text and ranges; right after begin(root_style) the tree
\* is the root alone, the cursor is the root, output text, ranges and pending
\* text are empty, the mode is Preserve and first-text is true.
C10_BeginResets ==
    /\ [](phase # "new" =>
            (builder = fresh /\ styles = fresh_styles /\ ret = fresh_ret))
    /\ [][\A root_style \in Styles :
            Begin(root_style) => builder' = Begun(root_style)]_vars

\* a reused builder has finished a pass of two ranges
C10_Witness ==
    /\ phase = "finished"
    /\ script = "free"
    /\ Len(styles) >= 2
    /\ Len(ret) = MaxText
    /\ ret = fresh_ret

\* C11 (Collapse idempotence): for every chunk and every pair of flags
\* (is_span_first, is_span_last), collapsing the result of collapsing the chunk,
\* with the same flags, returns that result unchanged.
C11_CollapseIdempotent ==
    Len(chunk.results) = 2 => chunk.results[2] = chunk.results[1]

\* a chunk that loses its edges and a whitespace run was collapsed twice
C11_Witness ==
    /\ Len(chunk.results) = 2
    /\ chunk.is_span_first
    /\ chunk.is_span_last
    /\ chunk.text = <<VT, "x", "\t">>
    /\ chunk.results[1] = <<"x">>

\* the text a step has added to pushed
PushedNow == SubSeq(pushed', Len(pushed) + 1, Len(pushed'))

\* C12 (push_text accumulates without flushing): push_text(text) appends text
\* to the pending text and changes nothing else of the builder (output text,
\* ranges, tree, cursor, mode and first-text flag), and push_text("") changes
\* nothing; in every reachable state push_text(a) followed by push_text(b)
\* leaves the builder as push_text(a ++ b) does.
C12_PushTextAccumulates ==
    /\ [][(IsPrefix(pushed, pushed') /\ phase' = phase /\ PushText(PushedNow)) =>
            /\ builder' = [builder EXCEPT !.uncomitted_text = @ \o PushedNow]
            /\ PushedNow = <<>> => builder' = builder]_vars
    /\ [](\A a \in FreeTexts : \A b \in FreeTexts :
            push_text(push_text(builder, a), b) = push_text(builder, a \o b))

\* two push_text calls in Collapse mode, in a child scope, are both pending
C12_Witness ==
    /\ phase = "building"
    /\ script = "free"
    /\ builder.white_space_collapse = "Collapse"
    /\ Len(builder.tree) = 2
    /\ builder.current_span = 1
    /\ Len(builder.uncomitted_text) = MaxText
    /\ builder.uncomitted_text = pushed
    /\ builder.text = <<>>
    /\ builder.flatted_styles = <<>>

\* the step leaves the builder as begin leaves it
BeginLike ==
    /\ builder'.tree # <<>>
    /\ builder' = Begun(builder'.tree[1].data.style)

\* the committed text after the step: what finish returned, or the text buffer
TextAfter ==
    IF phase' \in {"finished", "drained"} /\ ~builder'.panicked
    THEN ret'
    ELSE builder'.text

\* the text the step has committed
CommittedNow == SubSeq(TextAfter, Len(builder.text) + 1, Len(TextAfter))

\* C13 (the mode is applied at flush time): set_white_space_mode changes the
\* mode and nothing else (the pending text stays pending); every flush writes
\* the chunk that the mode current at the flush makes of the whole pending
\* text, whatever the mode was when the text was pushed and in whatever scope
\* the flush happens; the text committed before stays as it is.  Scenario E:
\* text pushed in Preserve mode and flushed in Collapse mode is collapsed,
\* text pushed in Collapse mode and flushed in Preserve mode is kept.
C13_ModeAtFlush ==
    /\ [][(builder'.white_space_collapse # builder.white_space_collapse
             /\ ~BeginLike) =>
            builder' = [builder EXCEPT
                          !.white_space_collapse = builder'.white_space_collapse]]_vars
    /\ [][(\E mode \in Modes : SetWhiteSpaceMode(mode)) =>
            /\ builder'.uncomitted_text = builder.uncomitted_text
            /\ builder'.text = builder.text
            /\ builder'.flatted_styles = builder.flatted_styles]_vars
    /\ [][~BeginLike =>
            /\ IsPrefix(builder.text, TextAfter)
            /\ IsPrefix(builder.flatted_styles, builder'.flatted_styles)
            /\ CommittedNow # <<>> =>
                  IF builder.white_space_collapse = "Preserve"
                  THEN CommittedNow = builder.uncomitted_text
                  ELSE \E is_span_last \in BOOLEAN :
                          CommittedNow =
                              collapse_transform(builder.uncomitted_text,
                                                 builder.is_span_first,
                                                 is_span_last)]_vars
    /\ []((script = "E" /\ pc = Len(ScenarioE)) =>
            /\ ret = <<"a", " ", "b", " ", " ", "c", " ">>
            /\ styles = <<Ranged(S0, 0, 4), Ranged(S1, 4, 7)>>)

\* Scenario E has run to its end
C13_Witness ==
    /\ script = "E"
    /\ pc = Len(ScenarioE)
    /\ phase = "finished"
    /\ ~preserve_only
    /\ builder.white_space_collapse = "Preserve"
    /\ Len(styles) = 2

RECURSIVE trim_ascii_start(_)
\* the text without its leading ASCII whitespace
trim_ascii_start(str) ==
    IF str # <<>> /\ is_ascii_whitespace(Head(str))
    THEN trim_ascii_start(Tail(str))
    ELSE str

RECURSIVE trim_ascii_end(_)
\* the text without its trailing ASCII whitespace
trim_ascii_end(str) ==
    IF str # <<>> /\ is_ascii_whitespace(str[Len(str)])
    THEN trim_ascii_end(SubSeq(str, 1, Len(str) - 1))
    ELSE str

\* the pending text with the edges trimmed of ASCII whitespace only
AsciiTrimmed(str, is_span_first, is_span_last) ==
    LET started == IF is_span_first THEN trim_ascii_start(str) ELSE str
    IN  IF is_span_last THEN trim_ascii_end(started) ELSE started

\* the step is one flush of the pending text with this is_span_last: a push of
\* a scope (FALSE), or a pop or a finish at the root (TRUE)
FlushedWith(is_span_last) ==
    /\ ~BeginLike
    /\ ~builder.panicked
    /\ ~builder'.panicked
    /\ IF is_span_last
       THEN \/ /\ phase' = phase
               /\ builder'.tree = builder.tree
               /\ builder'.current_span # builder.current_span
            \/ /\ phase = "building"
               /\ phase' = "finished"
               /\ AtRoot(builder)
       ELSE Len(builder'.tree) = Len(builder.tree) + 1

\* C14 (trimming is ASCII-only): a flush in Collapse mode commits the pending
\* text with only ASCII whitespace trimmed from its start (is_span_first) and
\* its end (is_span_last), the runs of ASCII whitespace left replaced by one
\* space; U+00A0 and U+000B at the edges are kept.
C14_AsciiTrimming ==
    [][\A is_span_last \in BOOLEAN :
          (builder.white_space_collapse = "Collapse" /\ FlushedWith(is_span_last)) =>
             CommittedNow =
                 collapse_spaces(AsciiTrimmed(builder.uncomitted_text,
                                              builder.is_span_first, is_span_last),
                                 FALSE)]_vars

\* C15 (pending text is only the text since the last flush): right after
\* push_style_span, push_style_modification_span, pop_style_span or finish
\* has returned, in either mode, uncomitted_text is empty.
C15_PendingEmptyAfterFlush ==
    [][(\/ FlushedWith(FALSE)
        \/ FlushedWith(TRUE)
        \/ ~BeginLike /\ ~builder'.panicked /\ phase = "building" /\ phase' = "finished") =>
          builder'.uncomitted_text = <<>>]_vars

RECURSIVE Chain(_, _)
\* the scopes open at node i, outermost first: the path from the root to i
Chain(s, i) ==
    IF Node(s, i).parent = None
    THEN <<i>>
    ELSE Chain(s, Node(s, i).parent[1]) \o <<i>>

\* the step has pushed one scope
PushedScope ==
    /\ Len(builder'.tree) = Len(builder.tree) + 1
    /\ ~BeginLike
    /\ ~builder.panicked
    /\ ~builder'.panicked

\* the step is a pop_style_span that has returned
PoppedScope ==
    /\ phase' = phase
    /\ ~builder.panicked
    /\ builder' = pop_style_span(builder)
    /\ ~builder'.panicked
    /\ PopStyleSpan

WellFormed(s) ==
    /\ s.tree # <<>>
    /\ \A i \in 0..(Len(s.tree) - 1) :
          /\ Node(s, i).data.kind = "Span"
          /\ IF i = 0
             THEN Node(s, i).parent = None
             ELSE /\ Node(s, i).parent # None
                  /\ Node(s, i).parent[1] >= 0
                  /\ Node(s, i).parent[1] < i
          /\ Chain(s, i)[1] = 0
    /\ InBounds(s, s.current_span)
    /\ Node(s, s.current_span).data.kind = "Span"
    /\ CurrentStyleOk(s)

\* C17 (tree and cursor well-formedness): in every state after begin, node 0
\* is the only node without a parent, every other node's parent is an earlier
\* node, so every parent chain ends at node 0, and current_span is the index
\* of a Span node; no operation but begin removes or alters a node; the only
\* panic is that of pop_style_span at the root, so current_style never fails.
C17_TreeWellFormed ==
    /\ [](phase # "new" => WellFormed(builder))
    /\ [][(phase # "new" /\ ~BeginLike) =>
            IsPrefix(builder.tree, builder'.tree)]_vars
    /\ [][(~builder.panicked /\ builder'.panicked) =>
            /\ AtRoot(builder)
            /\ PopStyleSpan]_vars

\* Scenario F after its first pop: three nodes, the cursor on the middle one
C17_Witness ==
    /\ script = "F"
    /\ pc = 7
    /\ phase = "building"
    /\ Len(builder.tree) = 3
    /\ Node(builder, 2).parent = Some(1)
    /\ builder.current_span = 1

\* the ranges after the step: what finish put into styles, or the range list
RangesAfter ==
    IF phase' \in {"finished", "drained"} /\ ~builder'.panicked
    THEN styles'
    ELSE builder'.flatted_styles

\* C18 (committed output is append-only): between begin and finish
\* current_text_len() is the end of the last emitted range (0 when there is
\* none) and never decreases; push_text leaves it as it is; every step keeps
\* the committed text and the emitted ranges as a prefix of what it leaves,
\* finish included, so an offset read mid-build is the same position in the
\* returned text.
C18_AppendOnly ==
    /\ [](phase = "building" =>
            current_text_len(builder) =
                IF builder.flatted_styles = <<>>
                THEN 0
                ELSE builder.flatted_styles[Len(builder.flatted_styles)].range.end)
    /\ [][(phase = "building" /\ ~BeginLike) =>
            /\ IsPrefix(builder.text, TextAfter)
            /\ IsPrefix(builder.flatted_styles, RangesAfter)
            /\ current_text_len(builder) <= len(TextAfter)
            /\ phase' = "building" =>
                  current_text_len(builder) <= current_text_len(builder')
            /\ pushed' # pushed =>
                  current_text_len(builder') = current_text_len(builder)]_vars

\* mid-build: a range is emitted and more text is pending
C18_Witness ==
    /\ phase = "building"
    /\ script = "free"
    /\ Len(builder.flatted_styles) = 1
    /\ current_text_len(builder) = 2
    /\ builder.text = <<NBSP>>
    /\ builder.uncomitted_text # <<>>

\* no two ASCII-whitespace characters next to each other
NoAdjacentWhitespace(str) ==
    \A i \in 1..(Len(str) - 1) :
        ~(is_ascii_whitespace(str[i]) /\ is_ascii_whitespace(str[i + 1]))

\* C19 (no adjacent whitespace in collapsed output): when the mode is set to
\* Collapse right after begin and never changed, the text finish returns has
\* no two consecutive ASCII-whitespace characters, whatever was pushed and
\* whatever scopes were opened and closed.
C19_NoAdjacentWhitespace ==
    (phase = "finished" /\ collapse_only /\ ~builder.panicked) =>
        NoAdjacentWhitespace(ret)

\* the positions of the characters of the text that are not whitespace
SolidPositions(str) == {i \in 1..Len(str) : ~is_whitespace(str[i])}

\* the position of the k-th character that is not whitespace
SolidPosition(str, k) ==
    CHOOSE i \in SolidPositions(str) :
        Cardinality({j \in SolidPositions(str) : j <= i}) = k

\* C20 (word separation survives collapsing): when the mode is set to Collapse
\* right after begin and never changed, two non-whitespace characters that
\* follow each other in the pushed text with only ASCII whitespace, and at
\* least one, between them are in the returned text with exactly one space
\* between them, whatever scopes were opened or closed between the two.
C20_WordSeparation ==
    (phase = "finished" /\ collapse_only /\ ~builder.panicked) =>
        \A k \in 1..(Cardinality(SolidPositions(pushed)) - 1) :
            LET x == SolidPosition(pushed, k)
                y == SolidPosition(pushed, k + 1)
            IN  (y > x + 1 /\ \A m \in (x + 1)..(y - 1) : is_ascii_whitespace(pushed[m])) =>
                   /\ Cardinality(SolidPositions(ret)) > k
                   /\ SolidPosition(ret, k + 1) = SolidPosition(ret, k) + 2
                   /\ ret[SolidPosition(ret, k) + 1] = " "
====
